---- MODULE Spec2Model ----
(***************************************************************************)
(* Model of the tiered question router (HybridRAGPipeline.ask_question)    *)
(* and of the curated knowledge-base store (QAContentManager).             *)
(*                                                                         *)
(* Scores are the floats returned by similarity_search_with_score, scaled  *)
(* by ten (0.7 is 7).  Strings that the code normalises (questions) are    *)
(* sequences of one-character strings, so that lower() and strip() are     *)
(* computed; other strings (answers, categories, sources) are atoms.       *)
(***************************************************************************)
EXTENDS Integers, Sequences, FiniteSets, TLC

\* ---------------------------------------------------------------- bounds
MaxCurated == 2
MaxPassages == 2
MaxOps == 4
MaxPersistOps == 3
MaxEntries == 2
MaxClock == 1
MaxMergeOps == 3
MaxThreads == 2
MaxThreadOps == 3
MaxVisibleOps == 3
MaxMoveOps == 3
MaxGenOps == 3
MaxExtracted == 2

\* ------------------------------------------------------ program constants
T_curated == 7
K_QA == 2
K_DOC == 3

Scores == {3, 7, 9}

VARIABLES
    \* HybridRAGPipeline
    qa_vector_store,    \* TRUE when self.qa_vector_store is not None
    doc_vector_store,   \* TRUE when self.doc_vector_store is not None
    pc,                 \* position inside ask_question
    use_hybrid,         \* argument of the running call
    qa_corpus,          \* what the curated collaborator answers to this query
    doc_corpus,         \* what the document collaborator answers to this query
    llm_fails,          \* whether self.llm(prompt) raises for this query
    qa_results,         \* local of ask_question
    doc_results,        \* local of ask_question
    result,             \* the envelope under construction / returned
    visited,            \* tiers entered by the running call, in order
    calls,              \* collaborator calls made by the running call, in order
    \* QAContentManager
    qa_data,            \* self.qa_data
    disk,               \* the file self.qa_data_file
    backups,            \* files of self.backup_dir, by timestamp
    clock,              \* datetime.now(), in seconds
    budget,             \* manager operations the run may still perform
    last,               \* the last manager operation and its outcome
    threads,            \* per caller thread: where it is inside add_qa_pair
    qa_index,           \* the documents of the collection under qa_vector_db
    \* ComprehensiveQAGenerator, StructuredQAGenerator
    generator,          \* self.qa_pairs and self.categories of the former
    structured,         \* self.qa_pairs of the latter
    extended,           \* self.qa_pairs of the last generate call as it
                        \* stood before the duplicates were removed
    written             \* the file save_comprehensive_qa wrote

routerVars == <<qa_vector_store, doc_vector_store, pc, use_hybrid, qa_corpus,
                doc_corpus, llm_fails, qa_results, doc_results, result,
                visited, calls>>
storeVars == <<qa_data, disk, backups, clock, budget, last, threads, qa_index>>
vars == <<qa_vector_store, doc_vector_store, pc, use_hybrid, qa_corpus,
          doc_corpus, llm_fails, qa_results, doc_results, result,
          visited, calls, qa_data, disk, backups, clock, budget, last,
          threads, qa_index, generator, structured, extended, written>>
generatorVars == <<generator, structured, extended, written>>

\* ------------------------------------------------------------- sequences
Range(s) == {s[i] : i \in DOMAIN s}

SeqsUpTo(S, n) == UNION {[1..m -> S] : m \in 0..n}

SortedByScore(s) == \A i \in 1..(Len(s) - 1) : s[i].score <= s[i + 1].score

Distinct(s) == \A i, j \in DOMAIN s : i # j => s[i].id # s[j].id

Min(a, b) == IF a < b THEN a ELSE b

\* =========================================================================
\* HybridRAGPipeline
\* =========================================================================

\* A curated hit as the vector store returns it: the entry (its stored
\* answer is named after it) and the distance score.
CuratedDoc == [id : 1..MaxCurated, score : Scores]

\* A document chunk as the vector store returns it.
PassageDoc == [id : 1..MaxPassages, score : Scores]

\* similarity_search_with_score: at most k hits, most similar (lowest
\* distance) first, no hit twice; or an exception.
Retrievals(Docs, k, n) ==
    {[raises |-> FALSE, docs |-> s] :
        s \in {t \in SeqsUpTo(Docs, Min(k, n)) : SortedByScore(t) /\ Distinct(t)}}
    \cup {[raises |-> TRUE, docs |-> <<>>]}

CuratedRetrievals == Retrievals(CuratedDoc, K_QA, MaxCurated)
PassageRetrievals == Retrievals(PassageDoc, K_DOC, MaxPassages)

NoRetrieval == [raises |-> FALSE, docs |-> <<>>]

\* search_qa_data: [] without a store or on an exception, else one result
\* per hit, in the collaborator's order.
search_qa_data(store, corpus) ==
    IF ~store THEN <<>>
    ELSE IF corpus.raises THEN <<>>
    ELSE [i \in DOMAIN corpus.docs |->
            [type |-> "qa_pair",
             question |-> corpus.docs[i].id,
             answer |-> corpus.docs[i].id,
             similarity_score |-> corpus.docs[i].score]]

\* search_documents: likewise for document chunks.
search_documents(store, corpus) ==
    IF ~store THEN <<>>
    ELSE IF corpus.raises THEN <<>>
    ELSE [i \in DOMAIN corpus.docs |->
            [type |-> "document_chunk",
             title |-> corpus.docs[i].id,
             similarity_score |-> corpus.docs[i].score]]

\* A search whose try block has no handler.
SearchUncaught(store, corpus) == store /\ corpus.raises

\* Whether an exception of the collaborator leaves search_qa_data or
\* search_documents: "except Exception" (lines 175-177, 199-201) catches
\* every one of them and returns [].
SearchEscapes(store, corpus) == FALSE

\* A caller that catches the model's exception and answers all the same.
GenerationSwallowed(fails) == FALSE

\* Whether an exception of self.llm(prompt) leaves ask_question: no handler
\* surrounds the calls of lines 283 and 295, nor the one of line 211.
GenerationEscapes(fails) == fails

\* Tier 2 leaving the confidence of the initial envelope in place.
GroundedConfidenceDefault == "low"

\* The confidence labels (lines 236, 284, 296).
CuratedConfidence == "high"
GroundedConfidence == "medium"
BaseConfidence == "low"

\* What the knowledge base stores with curated entry id: its confidence,
\* 'high' for every entry the manager adds with the default argument, and
\* its doc_id, which orders the entries as their numbers do.
StoredConfidence(id) == "high"
DocId(id) == id

\* The acceptance test of tier 1.
CuratedAccepts(results) ==
    /\ results # <<>>
    /\ results[1].similarity_score > T_curated

\* Tier 2 answering whatever the search returned.
DocumentsAnswerAlways(results) == TRUE

\* Tier 2 answering only from several passages.
DocumentsAnswerSeveral(results) == Len(results) >= 2

\* The guard of tier 2's answer.
DocumentsAnswer(results) == results # <<>>

\* sources_used of a curated answer (lines 238-245).
CuratedSources(best) ==
    <<[type |-> "qa_pair", ref |-> best.question,
       similarity_score |-> best.similarity_score]>>

\* A grounded answer that names no source.
DocumentSourcesDropped(results) == <<>>

\* sources_used of a grounded answer (lines 262-269).
DocumentSources(results) ==
    [i \in DOMAIN results |->
        [type |-> "document_chunk", ref |-> results[i].title,
         similarity_score |-> results[i].similarity_score]]

NoAnswer == [from |-> "none", entry |-> 0]

InitialResult ==
    [sources_used |-> <<>>, answer |-> NoAnswer, confidence |-> "low",
     method |-> "base_llm"]

QACall == [to |-> "qa_vector_store", kind |-> "search", passages |-> <<>>]
DocCall == [to |-> "doc_vector_store", kind |-> "search", passages |-> <<>>]
\* A grounding prompt built from the best passage alone.
GroundedCallBestOnly(results) ==
    [to |-> "llm", kind |-> "grounded", passages |-> <<results[1].title>>]

\* self.llm(prompt) with the grounding prompt (lines 262-283): the context
\* joins every result, in order.
GroundedCall(results) ==
    [to |-> "llm", kind |-> "grounded",
     passages |-> [i \in DOMAIN results |-> results[i].title]]
BaseCall == [to |-> "llm", kind |-> "base", passages |-> <<>>]

RouterLocals ==
    /\ pc = "idle"
    /\ use_hybrid = TRUE
    /\ qa_corpus = NoRetrieval
    /\ doc_corpus = NoRetrieval
    /\ llm_fails = FALSE
    /\ qa_results = <<>>
    /\ doc_results = <<>>
    /\ result = InitialResult
    /\ visited = <<>>
    /\ calls = <<>>

\* __init__ and _load_vector_stores (lines 53-62, 103-133): a store is
\* None when its directory does not exist.
RouterInit ==
    /\ qa_vector_store \in BOOLEAN
    /\ doc_vector_store \in BOOLEAN
    /\ RouterLocals

\* No pipeline: the manager is used by itself.
RouterAbsent ==
    /\ qa_vector_store = FALSE
    /\ doc_vector_store = FALSE
    /\ RouterLocals

\* Entry of ask_question: the envelope is initialised (lines 218-225).
AskQuestion ==
    /\ pc = "idle"
    /\ use_hybrid' \in BOOLEAN
    /\ qa_corpus' \in CuratedRetrievals
    /\ doc_corpus' \in PassageRetrievals
    /\ llm_fails' \in BOOLEAN
    /\ qa_results' = <<>>
    /\ doc_results' = <<>>
    /\ result' = InitialResult
    /\ visited' = <<>>
    /\ calls' = <<>>
    /\ pc' = "tier1"
    /\ UNCHANGED <<qa_vector_store, doc_vector_store>>
    /\ UNCHANGED storeVars
    /\ UNCHANGED generatorVars

\* Tier 1 (lines 227-249).
Tier1 ==
    /\ pc = "tier1"
    /\ visited' = Append(visited, "tier1")
    /\ IF qa_vector_store /\ use_hybrid
       THEN LET res == search_qa_data(qa_vector_store, qa_corpus) IN
            /\ calls' = Append(calls, QACall)
            /\ IF SearchEscapes(qa_vector_store, qa_corpus)
               THEN /\ pc' = "raised"
                    /\ UNCHANGED <<qa_results, result>>
               ELSE /\ qa_results' = res
                    /\ IF CuratedAccepts(res)
                       THEN /\ result' = [answer |-> [from |-> "qa_pair",
                                                     entry |-> res[1].answer],
                                          confidence |-> CuratedConfidence,
                                          method |-> "qa_data",
                                          sources_used |-> CuratedSources(res[1])]
                            /\ pc' = "returned"
                       ELSE /\ pc' = "tier2"
                            /\ UNCHANGED result
       ELSE /\ pc' = "tier2"
            /\ UNCHANGED <<qa_results, calls, result>>
    /\ UNCHANGED <<qa_vector_store, doc_vector_store, use_hybrid, qa_corpus,
                   doc_corpus, llm_fails, doc_results>>
    /\ UNCHANGED storeVars
    /\ UNCHANGED generatorVars

\* Tier 2 (lines 251-290).
Tier2 ==
    /\ pc = "tier2"
    /\ visited' = Append(visited, "tier2")
    /\ IF doc_vector_store /\ use_hybrid
       THEN LET res == search_documents(doc_vector_store, doc_corpus) IN
            IF SearchEscapes(doc_vector_store, doc_corpus)
            THEN /\ calls' = Append(calls, DocCall)
                 /\ pc' = "raised"
                 /\ UNCHANGED <<doc_results, result>>
            ELSE /\ doc_results' = res
                 /\ IF DocumentsAnswer(res)
                    THEN /\ calls' = calls \o <<DocCall, GroundedCall(res)>>
                         /\ IF GenerationEscapes(llm_fails)
                            THEN /\ pc' = "raised"
                                 /\ UNCHANGED result
                            ELSE /\ result' = [answer |-> [from |-> "llm", entry |-> 0],
                                               confidence |-> GroundedConfidence,
                                               method |-> "document_search",
                                               sources_used |-> DocumentSources(res)]
                                 /\ pc' = "returned"
                    ELSE /\ calls' = Append(calls, DocCall)
                         /\ pc' = "tier3"
                         /\ UNCHANGED result
       ELSE /\ pc' = "tier3"
            /\ UNCHANGED <<doc_results, calls, result>>
    /\ UNCHANGED <<qa_vector_store, doc_vector_store, use_hybrid, qa_corpus,
                   doc_corpus, llm_fails, qa_results>>
    /\ UNCHANGED storeVars
    /\ UNCHANGED generatorVars

\* Tier 3 (lines 292-302) with get_base_llm_answer.
Tier3 ==
    /\ pc = "tier3"
    /\ visited' = Append(visited, "tier3")
    /\ calls' = Append(calls, BaseCall)
    /\ IF GenerationEscapes(llm_fails)
       THEN /\ pc' = "raised"
            /\ UNCHANGED result
       ELSE /\ result' = [answer |-> [from |-> "llm", entry |-> 0],
                          confidence |-> BaseConfidence,
                          method |-> "base_llm",
                          sources_used |-> <<>>]
            /\ pc' = "returned"
    /\ UNCHANGED <<qa_vector_store, doc_vector_store, use_hybrid, qa_corpus,
                   doc_corpus, llm_fails, qa_results, doc_results>>
    /\ UNCHANGED storeVars
    /\ UNCHANGED generatorVars


\* =========================================================================
\* QAContentManager
\* =========================================================================

\* ------------------------------------------------------ str.lower, strip
LowerChar(c) == IF c = "A" THEN "a" ELSE IF c = "B" THEN "b" ELSE c

lower(s) == [i \in DOMAIN s |-> LowerChar(s[i])]

RECURSIVE lstrip(_)
lstrip(s) == IF s # <<>> /\ Head(s) = " " THEN lstrip(Tail(s)) ELSE s

RECURSIVE rstrip(_)
rstrip(s) ==
    IF s # <<>> /\ s[Len(s)] = " " THEN rstrip(SubSeq(s, 1, Len(s) - 1)) ELSE s

strip(s) == lstrip(rstrip(s))

\* question.lower().strip(), the key update and delete look entries up by.
Normalize(q) == strip(lower(q))

\* ------------------------------------------------------------ the inputs
Questions == {<<"A">>, <<"a", " ">>, <<"B">>}
FirstAnswer == "x"
SecondAnswer == "y"
Categories == {"a", "b"}
ManualSource == "Manual"
ImportSource == "Web"

\* A Python falsy argument (None or ""), and a key a dict lacks.
None == ""
Missing == "?"

\* The question of a dict that has no 'question' key.
NoQuestion == <<Missing>>

\* ------------------------------------------------------------- the store
\* A qa_pair dict.  context and confidence are written and read exactly as
\* answer is and are not carried separately; doc_id is constant; the date
\* stamps (added_date, updated_date) are never read and are not carried.
QAPair(q, a, c, s) ==
    [question |-> q, answer |-> a, category |-> c, source |-> s]

NullPair == [question |-> <<>>, answer |-> "", category |-> "", source |-> ""]

\* An element of a categories bucket is a dict object: either the very
\* object that sits at index ref of qa_pairs (add, update and import put
\* the same object in both places), or an object of its own (ref = 0),
\* as json.load builds for every bucket element.
Shared(i) == [ref |-> i, val |-> NullPair]
Own(e) == [ref |-> 0, val |-> e]

Deref(pairs, el) == IF el.ref > 0 THEN pairs[el.ref] ELSE el.val

EmptyMap == [c \in {} |-> <<>>]

Put(f, k, v) == [x \in (DOMAIN f) \cup {k} |-> IF x = k THEN v ELSE f[x]]

Metadata(n, cats, srcs) == [total_qa_pairs |-> n, categories |-> cats, sources |-> srcs]

\* self.qa_data = None
NoData ==
    [none |-> TRUE, qa_pairs |-> <<>>, categories |-> EmptyMap,
     metadata |-> Metadata(0, <<>>, <<>>)]

Data(pairs, cats, meta) ==
    [none |-> FALSE, qa_pairs |-> pairs, categories |-> cats, metadata |-> meta]

\* --------------------------------------------------------------- files
\* A file is absent, holds a JSON document, or holds the debris of an
\* interrupted write.  A JSON document is a tree of values: it has no
\* shared objects.
Tree(isNull, pairs, cats, meta) ==
    [null |-> isNull, qa_pairs |-> pairs, categories |-> cats, metadata |-> meta]

NullTree == Tree(TRUE, <<>>, EmptyMap, Metadata(0, <<>>, <<>>))

Absent == [kind |-> "absent", tree |-> NullTree]
Partial == [kind |-> "partial", tree |-> NullTree]
Json(t) == [kind |-> "json", tree |-> t]

\* json.dump(self.qa_data): every dict is written out where it is
\* referenced, so a shared object is written twice.
Dump(d) ==
    IF d.none THEN NullTree
    ELSE Tree(FALSE, d.qa_pairs,
              [c \in DOMAIN d.categories |->
                  [j \in DOMAIN d.categories[c] |->
                      Deref(d.qa_pairs, d.categories[c][j])]],
              d.metadata)

\* json.load: every value of the document becomes an object of its own.
Parse(t) ==
    IF t.null THEN NoData
    ELSE Data(t.qa_pairs,
              [c \in DOMAIN t.categories |->
                  [j \in DOMAIN t.categories[c] |-> Own(t.categories[c][j])]],
              t.metadata)

AppendNew(seq, x) == IF x \in Range(seq) THEN seq ELSE Append(seq, x)

Outcome(d, o) == [data |-> d, outcome |-> o]

\* load_qa_data (lines 22-32).  A missing file returns {} and leaves
\* self.qa_data alone; an unparsable file raises before the assignment; a
\* document that is null is assigned and the print that follows raises.
load_qa_data(d, file) ==
    IF file.kind = "absent" THEN Outcome(d, "not_found")
    ELSE IF file.kind = "partial" THEN Outcome(d, "raised")
    ELSE IF file.tree.null THEN Outcome(Parse(file.tree), "raised")
    ELSE Outcome(Parse(file.tree), "ok")

\* The "if not self.qa_data: self.load_qa_data()" every operation opens with.
EnsureLoaded(d, file) == IF d.none THEN load_qa_data(d, file) ELSE Outcome(d, "ok")

\* add_qa_pair (lines 56-88), on loaded data.
add_qa_pair(d, q, a, c, s) ==
    LET pairs == Append(d.qa_pairs, QAPair(q, a, c, s))
        bucket == IF c \in DOMAIN d.categories THEN d.categories[c] ELSE <<>>
        cats == Put(d.categories, c, Append(bucket, Shared(Len(pairs))))
        meta == Metadata(d.metadata.total_qa_pairs + 1,
                         AppendNew(d.metadata.categories, c),
                         AppendNew(d.metadata.sources, s))
    IN Outcome(Data(pairs, cats, meta), "ok")

\* The first index whose normalised question equals the normalised
\* argument, 0 when there is none (the for loops of update and delete).
Find(pairs, q) ==
    LET hits == {i \in DOMAIN pairs : Normalize(pairs[i].question) = Normalize(q)}
    IN IF hits = {} THEN 0 ELSE CHOOSE i \in hits : \A j \in hits : i <= j

\* The for loop of update and delete subscripts qa_pair['question'] of
\* every entry up to the first match: it raises KeyError when it meets an
\* entry without that key first.
Stumbles(pairs, q) ==
    LET k == Find(pairs, q) IN
    \E b \in DOMAIN pairs :
        /\ pairs[b].question = NoQuestion
        /\ k = 0 \/ b < k

\* Whether the list comprehension over bucket c raises KeyError: categories
\* has no key c, or an element of the bucket has no 'question' key.
Unfilterable(pairs, cats, c) ==
    \/ c \notin DOMAIN cats
    \/ \E j \in DOMAIN cats[c] : Deref(pairs, cats[c][j]).question = NoQuestion

\* [qa for qa in bucket if qa['question'] != question]
Without(pairs, bucket, question) ==
    SelectSeq(bucket, LAMBDA el : Deref(pairs, el).question # question)

\* update_qa_pair (lines 90-131), on loaded data.  The entry is written
\* first; the bucket of the old category is filtered afterwards, which
\* can raise KeyError.
update_qa_pair(d, q, new_answer, new_category) ==
    LET i == Find(d.qa_pairs, q) IN
    IF Stumbles(d.qa_pairs, q) THEN Outcome(d, "raised")
    ELSE IF i = 0 THEN Outcome(d, "not_found")
    ELSE
      LET old == d.qa_pairs[i]
          new == [old EXCEPT !.answer = IF new_answer # None THEN new_answer ELSE @,
                             !.category = IF new_category # None THEN new_category ELSE @]
          pairs == [d.qa_pairs EXCEPT ![i] = new]
      IN IF new_category # None /\ new_category # old.category
         THEN IF Unfilterable(pairs, d.categories, old.category)
              THEN Outcome(Data(pairs, d.categories, d.metadata), "raised")
              ELSE LET c1 == [d.categories EXCEPT ![old.category] =
                                  Without(pairs, @, new.question)]
                       b2 == IF new_category \in DOMAIN c1 THEN c1[new_category] ELSE <<>>
                       c2 == Put(c1, new_category, Append(b2, Shared(i)))
                   IN Outcome(Data(pairs, c2, d.metadata), "ok")
         ELSE Outcome(Data(pairs, d.categories, d.metadata), "ok")

\* What del qa_pairs[i] does to the bucket elements: the object that was
\* at i lives on by itself, the objects behind it move up by one.
Unlink(el, i, gone) ==
    IF el.ref = i THEN Own(gone)
    ELSE IF el.ref > i THEN Shared(el.ref - 1)
    ELSE el

\* delete_qa_pair without the decrement of total_qa_pairs.
delete_qa_pair_uncounted(d, q) ==
    LET i == Find(d.qa_pairs, q) IN
    IF Stumbles(d.qa_pairs, q) THEN Outcome(d, "raised")
    ELSE IF i = 0 THEN Outcome(d, "not_found")
    ELSE
      LET gone == d.qa_pairs[i]
          pairs == SubSeq(d.qa_pairs, 1, i - 1) \o SubSeq(d.qa_pairs, i + 1, Len(d.qa_pairs))
          c0 == [c \in DOMAIN d.categories |->
                    [j \in DOMAIN d.categories[c] |-> Unlink(d.categories[c][j], i, gone)]]
      IN IF Unfilterable(pairs, c0, gone.category)
         THEN Outcome(Data(pairs, c0, d.metadata), "raised")
         ELSE Outcome(Data(pairs,
                           [c0 EXCEPT ![gone.category] = Without(pairs, @, gone.question)],
                           d.metadata), "ok")

\* delete_qa_pair (lines 133-156), on loaded data.
delete_qa_pair(d, q) ==
    LET i == Find(d.qa_pairs, q) IN
    IF Stumbles(d.qa_pairs, q) THEN Outcome(d, "raised")
    ELSE IF i = 0 THEN Outcome(d, "not_found")
    ELSE
      LET gone == d.qa_pairs[i]
          pairs == SubSeq(d.qa_pairs, 1, i - 1) \o SubSeq(d.qa_pairs, i + 1, Len(d.qa_pairs))
          c0 == [c \in DOMAIN d.categories |->
                    [j \in DOMAIN d.categories[c] |-> Unlink(d.categories[c][j], i, gone)]]
          meta == [d.metadata EXCEPT !.total_qa_pairs = @ - 1]
      IN IF Unfilterable(pairs, c0, gone.category)
         THEN Outcome(Data(pairs, c0, meta), "raised")
         ELSE Outcome(Data(pairs,
                           [c0 EXCEPT ![gone.category] = Without(pairs, @, gone.question)],
                           meta), "ok")


\* The loop of import_category (lines 260-281) from entry k of the batch.
\* An entry without a category key raises after it was appended and
\* counted; one without a source key raises after it was put in its bucket.
RECURSIVE ImportLoop(_, _, _, _)
ImportLoop(d, batch, k, category) ==
    IF k > Len(batch) THEN Outcome(d, "ok")
    ELSE
      LET e == IF category # None THEN [batch[k] EXCEPT !.category = category]
               ELSE batch[k]
          pairs == Append(d.qa_pairs, e)
          n == d.metadata.total_qa_pairs + 1
      IN IF e.category = Missing
         THEN Outcome(Data(pairs, d.categories,
                           Metadata(n, d.metadata.categories, d.metadata.sources)),
                      "raised")
         ELSE
           LET bucket == IF e.category \in DOMAIN d.categories
                         THEN d.categories[e.category] ELSE <<>>
               cats == Put(d.categories, e.category, Append(bucket, Shared(Len(pairs))))
               mcats == AppendNew(d.metadata.categories, e.category)
           IN IF e.source = Missing
              THEN Outcome(Data(pairs, cats, Metadata(n, mcats, d.metadata.sources)),
                           "raised")
              ELSE ImportLoop(Data(pairs, cats,
                                   Metadata(n, mcats,
                                            AppendNew(d.metadata.sources, e.source))),
                              batch, k + 1, category)

\* import_category (lines 248-283), on loaded data.
import_category(d, batch, category) == ImportLoop(d, batch, 1, category)

\* validate_qa_pairs (lines 176-221), on loaded data.  The subscript of
\* line 202 raises KeyError for an entry without a question.  A field is
\* reported missing when its key is absent or its value falsy; context is
\* present exactly when answer is, and confidence is not carried, so
\* low_confidence stays empty.
validate_qa_pairs(d) ==
    LET pairs == d.qa_pairs
        missing(e) == {f \in {"question", "answer", "category", "source"} :
                         \/ f = "question" /\ e.question \in {NoQuestion, <<>>}
                         \/ f = "answer" /\ e.answer \in {Missing, None}
                         \/ f = "category" /\ e.category \in {Missing, None}
                         \/ f = "source" /\ e.source \in {Missing, None}}
        issues ==
          [missing_fields |->
               {x \in (DOMAIN pairs) \X {"question", "answer", "category", "source"} :
                  x[2] \in missing(pairs[x[1]])},
           duplicate_questions |->
               {i \in DOMAIN pairs :
                  \E j \in 1..(i - 1) :
                     Normalize(pairs[j].question) = Normalize(pairs[i].question)},
           empty_answers |-> {i \in DOMAIN pairs : pairs[i].answer \in {Missing, None}},
           low_confidence |-> {},
           orphaned_categories |-> {c \in DOMAIN d.categories : d.categories[c] = <<>>}]
    IN IF \E i \in DOMAIN pairs : pairs[i].question = NoQuestion
       THEN [data |-> d, outcome |-> "raised", issues |-> issues]
       ELSE [data |-> d, outcome |-> "ok", issues |-> issues]

\* export_category (lines 223-246), on loaded data: the qa_pairs and the
\* count of the file it writes; nothing is written for a category that has
\* no bucket.
export_category(d, c) ==
    IF c \notin DOMAIN d.categories
    THEN [written |-> FALSE, qa_pairs |-> <<>>, count |-> 0]
    ELSE LET qa_list == [j \in DOMAIN d.categories[c] |->
                            Deref(d.qa_pairs, d.categories[c][j])]
         IN [written |-> TRUE, qa_pairs |-> qa_list, count |-> Len(qa_list)]

\* save_qa_data (lines 34-54).  fault is where the file system fails, if
\* it does: "backup" while the backup is written, "open" when the primary
\* file is opened for writing, "write" while json.dump writes into it.
\* The result is the primary file, the backup directory and the outcome.
Saved(file, bks, o) == [disk |-> file, backups |-> bks, outcome |-> o]

WritePrimary(d, file, bks, fault) ==
    IF fault = "open" THEN Saved(file, bks, "open_failed")
    ELSE IF fault = "write" THEN Saved(Partial, bks, "write_failed")
    ELSE Saved(Json(Dump(d)), bks, "ok")

\* A save that goes on to the primary file after its backup failed.
save_qa_data_past_backup(d, file, bks, now, fault) ==
    IF file.kind = "absent" THEN WritePrimary(d, file, bks, fault)
    ELSE IF file.kind = "partial" THEN WritePrimary(d, file, bks, "none")
    ELSE IF fault = "backup" THEN WritePrimary(d, file, Put(bks, now, Partial), "none")
    ELSE WritePrimary(d, file, Put(bks, now, Json(Dump(Parse(file.tree)))), fault)

save_qa_data(d, file, bks, now, fault) ==
    IF file.kind = "absent" THEN WritePrimary(d, file, bks, fault)
    ELSE IF file.kind = "partial" THEN Saved(file, bks, "backup_failed")
    ELSE IF fault = "backup" THEN Saved(file, Put(bks, now, Partial), "backup_failed")
    ELSE WritePrimary(d, file, Put(bks, now, Json(Dump(Parse(file.tree)))), fault)


\* list(set): the elements of S in some order.
Orderings(S) ==
    {s \in SeqsUpTo(S, Cardinality(S)) : Range(s) = S /\ Len(s) = Cardinality(S)}

\* GoogleDocProcessor.merge_with_existing_qa (lines 271-298) on the
\* manager's file: the new pairs are appended to qa_pairs and counted, and
\* their categories join metadata.categories, which comes out in the order
\* of a set; the categories view is written back as it was read.  Without
\* the file the pairs go to a file of the generator's own output directory.
merge_with_existing_qa(file, new_qa_pairs, order) ==
    IF file.kind = "absent" THEN [disk |-> file, outcome |-> "saved_apart"]
    ELSE IF file.kind = "partial" \/ file.tree.null
         THEN [disk |-> file, outcome |-> "raised"]
    ELSE LET t == file.tree
             pairs == t.qa_pairs \o new_qa_pairs
         IN [disk |-> Json(Tree(FALSE, pairs, t.categories,
                                Metadata(Len(pairs), order, t.metadata.sources))),
             outcome |-> "ok"]

\* The caller takes the envelope, or the exception, of ask_question.
Return ==
    /\ pc \in {"returned", "raised"}
    /\ pc' = "idle"
    /\ use_hybrid' = TRUE
    /\ qa_corpus' = NoRetrieval
    /\ doc_corpus' = NoRetrieval
    /\ llm_fails' = FALSE
    /\ qa_results' = <<>>
    /\ doc_results' = <<>>
    /\ result' = InitialResult
    /\ visited' = <<>>
    /\ calls' = <<>>
    /\ UNCHANGED <<qa_vector_store, doc_vector_store>>
    /\ UNCHANGED storeVars
    /\ UNCHANGED generatorVars

\* ------------------------------------------------------------ the files
EmptyTree == Tree(FALSE, <<>>, EmptyMap, Metadata(0, <<>>, <<>>))

OnePair == QAPair(<<"A">>, FirstAnswer, "a", ManualSource)

OneTree ==
    Tree(FALSE, <<OnePair>>, [c \in {"a"} |-> <<OnePair>>],
         Metadata(1, <<"a">>, <<ManualSource>>))

\* The knowledge-base file the manager is constructed on.
InitFiles == {Absent, Json(EmptyTree), Json(OneTree)}

\* The qa_pairs of the files given to import_category.
ImportFiles ==
    {<<QAPair(<<"B">>, FirstAnswer, "b", ImportSource)>>,
     <<QAPair(<<"A">>, SecondAnswer, "a", ImportSource),
       QAPair(<<"a", " ">>, SecondAnswer, "a", ImportSource)>>,
     <<QAPair(<<"B">>, SecondAnswer, Missing, ImportSource)>>,
     <<QAPair(NoQuestion, FirstAnswer, "a", ImportSource)>>}

\* The pairs a run of the generator hands to merge_with_existing_qa.
GeneratedPairs ==
    {<<QAPair(<<"B">>, FirstAnswer, "b", ImportSource)>>,
     <<QAPair(<<"A">>, SecondAnswer, "b", ImportSource)>>}

Faults == {"none", "backup", "open", "write"}

Did(op, o, q) == [op |-> op, outcome |-> o, question |-> q]

\* The threads that call the manager, and a thread outside add_qa_pair.
Threads == 1..MaxThreads

Idle == [pc |-> "idle", q |-> <<>>, c |-> None, tmp |-> 0, idx |-> 0, old |-> None]

\* __init__ (lines 16-20): nothing is loaded yet.
ManagerInit(b) ==
    /\ qa_data = NoData
    /\ disk \in InitFiles
    /\ backups = [t \in {} |-> Absent]
    /\ clock = 0
    /\ budget = b
    /\ last = Did("init", "ok", <<>>)
    /\ threads = [t \in Threads |-> Idle]

\* The manager on a machine where the collection was never built.
StoreInit(b) == ManagerInit(b) /\ qa_index = <<>>

Spend ==
    /\ budget > 0
    /\ budget' = budget - 1

\* The outcome r of an operation on the data its implicit load left.
\* Without data after that load the call raises instead: load_qa_data
\* raised, or the first subscript of None does.
Call(loaded, r) ==
    IF loaded.data.none THEN Outcome(loaded.data, "raised") ELSE r

LoadQAData ==
    /\ Spend
    /\ LET r == load_qa_data(qa_data, disk) IN
       /\ qa_data' = r.data
       /\ last' = Did("load", r.outcome, <<>>)
    /\ UNCHANGED <<disk, backups, clock>>
    /\ UNCHANGED <<threads, qa_index>>
    /\ UNCHANGED routerVars
    /\ UNCHANGED generatorVars

AddQAPair ==
    /\ Spend
    /\ \E q \in Questions, c \in Categories :
         LET l == EnsureLoaded(qa_data, disk)
             r == Call(l, add_qa_pair(l.data, q, FirstAnswer, c, ManualSource))
         IN /\ Len(l.data.qa_pairs) < MaxEntries
            /\ qa_data' = r.data
            /\ last' = Did("add", r.outcome, q)
    /\ UNCHANGED <<disk, backups, clock>>
    /\ UNCHANGED <<threads, qa_index>>
    /\ UNCHANGED routerVars
    /\ UNCHANGED generatorVars

UpdateQAPair ==
    /\ Spend
    /\ \E q \in Questions, a \in {None, SecondAnswer}, c \in Categories \cup {None} :
         LET l == EnsureLoaded(qa_data, disk)
             r == Call(l, update_qa_pair(l.data, q, a, c))
         IN /\ qa_data' = r.data
            /\ last' = Did("update", r.outcome, <<>>)
    /\ UNCHANGED <<disk, backups, clock>>
    /\ UNCHANGED <<threads, qa_index>>
    /\ UNCHANGED routerVars
    /\ UNCHANGED generatorVars

DeleteQAPair ==
    /\ Spend
    /\ \E q \in Questions :
         LET l == EnsureLoaded(qa_data, disk)
             r == Call(l, delete_qa_pair(l.data, q))
         IN /\ qa_data' = r.data
            /\ last' = Did("delete", r.outcome, <<>>)
    /\ UNCHANGED <<disk, backups, clock>>
    /\ UNCHANGED <<threads, qa_index>>
    /\ UNCHANGED routerVars
    /\ UNCHANGED generatorVars

ImportCategory ==
    /\ Spend
    /\ \E batch \in ImportFiles, c \in {None, "a"} :
         LET l == EnsureLoaded(qa_data, disk)
             r == Call(l, import_category(l.data, batch, c))
         IN /\ Len(l.data.qa_pairs) + Len(batch) <= MaxEntries
            /\ qa_data' = r.data
            /\ last' = Did("import", r.outcome, <<>>)
    /\ UNCHANGED <<disk, backups, clock>>
    /\ UNCHANGED <<threads, qa_index>>
    /\ UNCHANGED routerVars
    /\ UNCHANGED generatorVars

ValidateQAPairs ==
    /\ Spend
    /\ LET l == EnsureLoaded(qa_data, disk)
           r == Call(l, validate_qa_pairs(l.data))
       IN /\ qa_data' = r.data
          /\ last' = Did("validate", r.outcome, <<>>)
    /\ UNCHANGED <<disk, backups, clock>>
    /\ UNCHANGED <<threads, qa_index>>
    /\ UNCHANGED routerVars
    /\ UNCHANGED generatorVars

SaveQAData ==
    /\ Spend
    /\ \E fault \in Faults :
         LET r == save_qa_data(qa_data, disk, backups, clock, fault) IN
         /\ fault = "backup" => disk.kind = "json"
         /\ disk' = r.disk
         /\ backups' = r.backups
         /\ last' = Did("save", r.outcome, <<>>)
    /\ UNCHANGED <<qa_data, clock>>
    /\ UNCHANGED <<threads, qa_index>>
    /\ UNCHANGED routerVars
    /\ UNCHANGED generatorVars

\* A run of the generator with --merge (lines 337-338).
MergeWithExistingQA ==
    /\ Spend
    /\ \E batch \in GeneratedPairs :
         LET held == IF disk.kind = "json" THEN disk.tree.metadata.categories ELSE <<>>
             new == {batch[i].category : i \in DOMAIN batch}
         IN \E order \in Orderings(Range(held) \cup new) :
              LET r == merge_with_existing_qa(disk, batch, order) IN
              /\ disk.kind = "json" => Len(disk.tree.qa_pairs) + Len(batch) <= MaxEntries
              /\ disk' = r.disk
              /\ last' = Did("merge", r.outcome, <<>>)
    /\ UNCHANGED <<qa_data, backups, clock>>
    /\ UNCHANGED <<threads, qa_index>>
    /\ UNCHANGED routerVars
    /\ UNCHANGED generatorVars

\* A second passes.
Tick ==
    /\ clock < MaxClock
    /\ clock' = clock + 1
    /\ UNCHANGED <<qa_data, disk, backups, budget, last>>
    /\ UNCHANGED <<threads, qa_index>>
    /\ UNCHANGED routerVars
    /\ UNCHANGED generatorVars

\* ------------------------------------------- add_qa_pair, step by step
\* add_qa_pair as a thread runs it: the interpreter may hand over to
\* another thread between any two of its reads and writes of self.qa_data.
\* No statement of the manager takes a lock.
Running == {t \in Threads : threads[t].pc # "idle"}

At(t, where) == threads[t].pc = where

Goto(t, where) == threads' = [threads EXCEPT ![t].pc = where]

\* Lines 59-71: the implicit load, then the new dict.
AddBegin ==
    /\ Spend
    /\ \E t \in Threads, q \in Questions, c \in Categories :
         LET l == EnsureLoaded(qa_data, disk) IN
         /\ At(t, "idle")
         /\ Len(l.data.qa_pairs) + Cardinality(Running) < MaxEntries
         /\ qa_data' = l.data
         /\ IF l.data.none
            THEN /\ last' = Did("add", "raised", q)
                 /\ UNCHANGED threads
            ELSE /\ threads' = [threads EXCEPT ![t] =
                                   [pc |-> "append", q |-> q, c |-> c, tmp |-> 0, idx |-> 0,
                                    old |-> None]]
                 /\ UNCHANGED last
    /\ UNCHANGED <<disk, backups, clock, qa_index>>
    /\ UNCHANGED routerVars
    /\ UNCHANGED generatorVars

\* Line 73.
AddAppend ==
    \E t \in Threads :
        /\ At(t, "append")
        /\ qa_data' = [qa_data EXCEPT !.qa_pairs =
                          Append(@, QAPair(threads[t].q, FirstAnswer, threads[t].c,
                                           ManualSource))]
        /\ threads' = [threads EXCEPT ![t].pc = "read",
                                      ![t].idx = Len(qa_data.qa_pairs) + 1]
        /\ UNCHANGED <<disk, backups, clock, budget, last>>
        /\ UNCHANGED qa_index
        /\ UNCHANGED routerVars
        /\ UNCHANGED generatorVars

\* Line 74, the read of total_qa_pairs.
AddRead ==
    \E t \in Threads :
        /\ At(t, "read")
        /\ threads' = [threads EXCEPT ![t].pc = "write",
                                      ![t].tmp = qa_data.metadata.total_qa_pairs]
        /\ UNCHANGED <<qa_data, disk, backups, clock, budget, last>>
        /\ UNCHANGED qa_index
        /\ UNCHANGED routerVars
        /\ UNCHANGED generatorVars

\* Line 74, the write of total_qa_pairs.
AddWrite ==
    \E t \in Threads :
        /\ At(t, "write")
        /\ qa_data' = [qa_data EXCEPT !.metadata.total_qa_pairs = threads[t].tmp + 1]
        /\ Goto(t, "bucket")
        /\ UNCHANGED <<disk, backups, clock, budget, last>>
        /\ UNCHANGED qa_index
        /\ UNCHANGED routerVars
        /\ UNCHANGED generatorVars

\* Lines 77-78.
AddBucket ==
    \E t \in Threads :
        /\ At(t, "bucket")
        /\ qa_data' = IF threads[t].c \in DOMAIN qa_data.categories THEN qa_data
                      ELSE [qa_data EXCEPT !.categories = Put(@, threads[t].c, <<>>)]
        /\ Goto(t, "link")
        /\ UNCHANGED <<disk, backups, clock, budget, last>>
        /\ UNCHANGED qa_index
        /\ UNCHANGED routerVars
        /\ UNCHANGED generatorVars

\* Line 79.
AddLink ==
    \E t \in Threads :
        /\ At(t, "link")
        /\ qa_data' = [qa_data EXCEPT !.categories[threads[t].c] =
                          Append(@, Shared(threads[t].idx))]
        /\ Goto(t, "meta")
        /\ UNCHANGED <<disk, backups, clock, budget, last>>
        /\ UNCHANGED qa_index
        /\ UNCHANGED routerVars
        /\ UNCHANGED generatorVars

\* Lines 82-88.
AddMeta ==
    \E t \in Threads :
        /\ At(t, "meta")
        /\ qa_data' = [qa_data EXCEPT
                          !.metadata.categories = AppendNew(@, threads[t].c),
                          !.metadata.sources = AppendNew(@, ManualSource)]
        /\ threads' = [threads EXCEPT ![t] = Idle]
        /\ last' = Did("add", "ok", threads[t].q)
        /\ UNCHANGED <<disk, backups, clock, budget>>
        /\ UNCHANGED qa_index
        /\ UNCHANGED routerVars
        /\ UNCHANGED generatorVars

\* ------------------------------------- update_qa_pair, step by step
\* update_qa_pair with a new category as a thread runs it; whoever reads
\* self.qa_data between two steps sees what the steps before have written.
\* Lines 93-99: the implicit load, the search of the entry, old_category.
UpdBegin ==
    /\ Spend
    /\ \E t \in Threads, q \in Questions, c \in Categories :
         LET l == EnsureLoaded(qa_data, disk)
             i == Find(l.data.qa_pairs, q)
         IN /\ At(t, "idle")
            /\ qa_data' = l.data
            /\ IF l.data.none \/ Stumbles(l.data.qa_pairs, q)
               THEN /\ last' = Did("update", "raised", <<>>)
                    /\ UNCHANGED threads
               ELSE IF i = 0
               THEN /\ last' = Did("update", "not_found", <<>>)
                    /\ UNCHANGED threads
               ELSE /\ threads' = [threads EXCEPT ![t] =
                                      [pc |-> "u_write", q |-> q, c |-> c, tmp |-> 0,
                                       idx |-> i, old |-> l.data.qa_pairs[i].category]]
                    /\ UNCHANGED last
    /\ UNCHANGED <<disk, backups, clock, qa_index>>
    /\ UNCHANGED routerVars
    /\ UNCHANGED generatorVars

\* Lines 106-110, and lines 113, 124-128 when the category is the old one.
UpdWrite ==
    \E t \in Threads :
        /\ At(t, "u_write")
        /\ qa_data' = [qa_data EXCEPT !.qa_pairs[threads[t].idx].category = threads[t].c]
        /\ IF threads[t].c # threads[t].old
           THEN /\ Goto(t, "u_remove")
                /\ UNCHANGED last
           ELSE /\ threads' = [threads EXCEPT ![t] = Idle]
                /\ last' = Did("update", "ok", <<>>)
        /\ UNCHANGED <<disk, backups, clock, budget>>
        /\ UNCHANGED qa_index
        /\ UNCHANGED routerVars
        /\ UNCHANGED generatorVars

\* Lines 115-118.
UpdRemove ==
    \E t \in Threads :
        /\ At(t, "u_remove")
        /\ IF Unfilterable(qa_data.qa_pairs, qa_data.categories, threads[t].old)
           THEN /\ threads' = [threads EXCEPT ![t] = Idle]
                /\ last' = Did("update", "raised", <<>>)
                /\ UNCHANGED qa_data
           ELSE /\ qa_data' = [qa_data EXCEPT !.categories[threads[t].old] =
                                  Without(qa_data.qa_pairs, @,
                                          qa_data.qa_pairs[threads[t].idx].question)]
                /\ Goto(t, "u_bucket")
                /\ UNCHANGED last
        /\ UNCHANGED <<disk, backups, clock, budget>>
        /\ UNCHANGED qa_index
        /\ UNCHANGED routerVars
        /\ UNCHANGED generatorVars

\* Lines 120-121.
UpdBucket ==
    \E t \in Threads :
        /\ At(t, "u_bucket")
        /\ qa_data' = IF threads[t].c \in DOMAIN qa_data.categories THEN qa_data
                      ELSE [qa_data EXCEPT !.categories = Put(@, threads[t].c, <<>>)]
        /\ Goto(t, "u_link")
        /\ UNCHANGED <<disk, backups, clock, budget, last>>
        /\ UNCHANGED qa_index
        /\ UNCHANGED routerVars
        /\ UNCHANGED generatorVars

\* Lines 122-128.
UpdLink ==
    \E t \in Threads :
        /\ At(t, "u_link")
        /\ qa_data' = [qa_data EXCEPT !.categories[threads[t].c] =
                          Append(@, Shared(threads[t].idx))]
        /\ threads' = [threads EXCEPT ![t] = Idle]
        /\ last' = Did("update", "ok", <<>>)
        /\ UNCHANGED <<disk, backups, clock, budget>>
        /\ UNCHANGED qa_index
        /\ UNCHANGED routerVars
        /\ UNCHANGED generatorVars

\* ------------------------------------------- the curated vector index
\* HybridRAGSetup.create_qa_vector_db (lines 29-75): one document per
\* entry of the file's qa_pairs goes into the collection persisted under
\* qa_vector_db.  Chroma.from_documents either starts the collection anew
\* or adds to the one the directory already holds; both are allowed here.
\* A file that cannot be read makes the function return False with the
\* collection as it was.
create_qa_vector_db(file, index, adds) ==
    IF file.kind # "json" \/ file.tree.null THEN [index |-> index, ok |-> FALSE]
    ELSE [index |-> IF adds THEN index \o file.tree.qa_pairs ELSE file.tree.qa_pairs,
          ok |-> TRUE]

CreateQAVectorDB ==
    /\ Spend
    /\ \E adds \in BOOLEAN :
         LET r == create_qa_vector_db(disk, qa_index, adds) IN
         /\ Len(r.index) <= MaxCurated
         /\ qa_index' = r.index
         /\ qa_vector_store' = (qa_vector_store \/ r.ok)
         /\ last' = Did("index", IF r.ok THEN "ok" ELSE "failed", <<>>)
    /\ UNCHANGED <<qa_data, disk, backups, clock, threads>>
    /\ UNCHANGED <<doc_vector_store, pc, use_hybrid, qa_corpus, doc_corpus,
                   llm_fails, qa_results, doc_results, result, visited, calls>>
    /\ UNCHANGED generatorVars

\* What similarity_search_with_score can return from the collection: hits
\* are documents of the collection, named by their position in it.
IndexedRetrievals(index) ==
    {r \in CuratedRetrievals : \A i \in DOMAIN r.docs : r.docs[i].id \in DOMAIN index}

\* ask_question on a pipeline whose curated store is the collection and
\* which has no document store.
AskIndexed ==
    /\ pc = "idle"
    /\ use_hybrid' = TRUE
    /\ qa_corpus' \in IndexedRetrievals(qa_index)
    /\ doc_corpus' = NoRetrieval
    /\ llm_fails' = FALSE
    /\ qa_results' = <<>>
    /\ doc_results' = <<>>
    /\ result' = InitialResult
    /\ visited' = <<>>
    /\ calls' = <<>>
    /\ pc' = "tier1"
    /\ UNCHANGED <<qa_vector_store, doc_vector_store>>
    /\ UNCHANGED storeVars
    /\ UNCHANGED generatorVars

\* =========================================================================
\* ComprehensiveQAGenerator, StructuredQAGenerator
\* =========================================================================

\* A second document source, next to ImportSource.
BookSource == "Book"

\* The pairs the extract_* methods can emit: the question and the category
\* are literals of the code, the source is that of the matching document.
Extractable ==
    {QAPair(<<"A">>, FirstAnswer, "a", ImportSource),
     QAPair(<<"A">>, FirstAnswer, "a", BookSource),
     QAPair(<<"B">>, FirstAnswer, "b", ImportSource)}

\* What the extract_* calls of one generate call return, one after the
\* other: one group of pairs per matching document, so a question comes as
\* often as documents match.
Extracted == SeqsUpTo(Extractable, MaxExtracted)

\* qa['question'].lower().strip(), taken as it is.
question_key_raw(qa) == qa.question

\* qa['question'].lower().strip()
question_key(qa) == Normalize(qa.question)

\* The loop of remove_duplicates from index i on, with the keys seen and
\* the entries kept so far.
RECURSIVE DedupLoop(_, _, _, _)
DedupLoop(pairs, i, seen_questions, unique_qa) ==
    IF i > Len(pairs) THEN unique_qa
    ELSE IF question_key(pairs[i]) \notin seen_questions
         THEN DedupLoop(pairs, i + 1,
                        seen_questions \cup {question_key(pairs[i])},
                        Append(unique_qa, pairs[i]))
         ELSE DedupLoop(pairs, i + 1, seen_questions, unique_qa)

remove_duplicates(pairs) == DedupLoop(pairs, 1, {}, <<>>)

\* self.categories[category].append(qa) on a defaultdict(list).
Bucketed(cats, qa) ==
    IF qa.category \in DOMAIN cats
    THEN [cats EXCEPT ![qa.category] = Append(@, qa)]
    ELSE Put(cats, qa.category, <<qa>>)

\* The loop of organize_by_category from index i on.
RECURSIVE organize_by_category(_, _, _)
organize_by_category(pairs, i, cats) ==
    IF i > Len(pairs) THEN cats
    ELSE organize_by_category(pairs, i + 1, Bucketed(cats, pairs[i]))

\* generate_comprehensive_qa: the extracted pairs are appended to
\* self.qa_pairs, the duplicates removed, and every entry left is appended
\* to the bucket of its category.
generate_comprehensive_qa(g, extracted) ==
    LET pairs == remove_duplicates(g.qa_pairs \o extracted) IN
    [qa_pairs |-> pairs,
     categories |-> organize_by_category(pairs, 1, g.categories)]

\* add_custom_qa_pair: one dict, appended to self.qa_pairs and to the
\* bucket of its category.
add_custom_qa_pair(g, question, answer, category, source) ==
    LET qa_pair == QAPair(question, answer, category, source) IN
    [qa_pairs |-> Append(g.qa_pairs, qa_pair),
     categories |-> Bucketed(g.categories, qa_pair)]

\* save_comprehensive_qa: the structured_data written to the file.
save_comprehensive_qa(g) ==
    [kind |-> "json",
     metadata |->
        [total_qa_pairs |-> Len(g.qa_pairs),
         categories |-> DOMAIN g.categories,
         category_counts |-> [cat \in DOMAIN g.categories |-> Len(g.categories[cat])],
         sources |-> {g.qa_pairs[i].source : i \in DOMAIN g.qa_pairs}],
     qa_pairs |-> g.qa_pairs,
     categories |-> g.categories]

\* generate_structured_qa: the extracted pairs are appended to
\* self.qa_pairs and the duplicates removed, by the same loop.
generate_structured_qa(pairs, extracted) == DedupLoop(pairs \o extracted, 1, {}, <<>>)

Unwritten ==
    [kind |-> "absent",
     metadata |-> [total_qa_pairs |-> 0, categories |-> {},
                   category_counts |-> EmptyMap, sources |-> {}],
     qa_pairs |-> <<>>,
     categories |-> EmptyMap]

\* __init__ of both generators: no pairs, no buckets, and no file yet.
GeneratorInit ==
    /\ generator = [qa_pairs |-> <<>>, categories |-> EmptyMap]
    /\ structured = <<>>
    /\ extended = <<>>
    /\ written = Unwritten

GenerateComprehensiveQA ==
    /\ Spend
    /\ \E extracted \in Extracted :
         /\ extended' = generator.qa_pairs \o extracted
         /\ generator' = generate_comprehensive_qa(generator, extracted)
    /\ last' = Did("generate", "ok", <<>>)
    /\ UNCHANGED <<structured, written>>
    /\ UNCHANGED <<qa_data, disk, backups, clock, threads, qa_index>>
    /\ UNCHANGED routerVars

AddCustomQAPair ==
    /\ Spend
    /\ \E q \in Questions, c \in Categories :
         /\ generator' = add_custom_qa_pair(generator, q, FirstAnswer, c, ManualSource)
         /\ last' = Did("add_custom", "ok", q)
    /\ UNCHANGED <<structured, extended, written>>
    /\ UNCHANGED <<qa_data, disk, backups, clock, threads, qa_index>>
    /\ UNCHANGED routerVars

SaveComprehensiveQA ==
    /\ Spend
    /\ written' = save_comprehensive_qa(generator)
    /\ last' = Did("save_comprehensive", "ok", <<>>)
    /\ UNCHANGED <<generator, structured, extended>>
    /\ UNCHANGED <<qa_data, disk, backups, clock, threads, qa_index>>
    /\ UNCHANGED routerVars

GenerateStructuredQA ==
    /\ Spend
    /\ \E extracted \in Extracted :
         /\ extended' = structured \o extracted
         /\ structured' = generate_structured_qa(structured, extracted)
    /\ last' = Did("generate_structured", "ok", <<>>)
    /\ UNCHANGED <<generator, written>>
    /\ UNCHANGED <<qa_data, disk, backups, clock, threads, qa_index>>
    /\ UNCHANGED routerVars

\* ------------------------------------------------------ specifications
\* The pipeline by itself.
InitRouter == RouterInit /\ StoreInit(0) /\ GeneratorInit /\ disk = Absent

RouterNext == AskQuestion \/ Tier1 \/ Tier2 \/ Tier3 \/ Return

SpecRouter == InitRouter /\ [][RouterNext]_vars

\* The manager under add, update and delete, over runs of at most MaxOps
\* operations.
InitCRUD == RouterAbsent /\ StoreInit(MaxOps) /\ GeneratorInit

CRUDNext == AddQAPair \/ UpdateQAPair \/ DeleteQAPair

SpecCRUD == InitCRUD /\ [][CRUDNext]_vars

\* The manager under add, update, delete, import and validate, likewise.
InitStore == RouterAbsent /\ StoreInit(MaxOps) /\ GeneratorInit

StoreNext ==
    \/ AddQAPair
    \/ UpdateQAPair
    \/ DeleteQAPair
    \/ ImportCategory
    \/ ValidateQAPairs

SpecStore == InitStore /\ [][StoreNext]_vars

\* The manager and its files, over runs of at most MaxPersistOps operations.
InitPersist == RouterAbsent /\ StoreInit(MaxPersistOps) /\ GeneratorInit

PersistNext ==
    \/ AddQAPair
    \/ UpdateQAPair
    \/ DeleteQAPair
    \/ ImportCategory
    \/ SaveQAData
    \/ LoadQAData
    \/ Tick

SpecPersist == InitPersist /\ [][PersistNext]_vars

\* The manager next to the generator that merges into the same file, over
\* runs of at most MaxMergeOps operations.
InitMerge == RouterAbsent /\ StoreInit(MaxMergeOps) /\ GeneratorInit

MergeNext ==
    \/ MergeWithExistingQA
    \/ LoadQAData
    \/ AddQAPair
    \/ UpdateQAPair
    \/ DeleteQAPair
    \/ ValidateQAPairs

SpecMerge == InitMerge /\ [][MergeNext]_vars

\* Threads that add while another saves, over runs of at most
\* MaxThreadOps calls.
InitThreads == RouterAbsent /\ StoreInit(MaxThreadOps) /\ GeneratorInit

ThreadsNext ==
    \/ AddBegin
    \/ AddAppend
    \/ AddRead
    \/ AddWrite
    \/ AddBucket
    \/ AddLink
    \/ AddMeta
    \/ SaveQAData

SpecThreads == InitThreads /\ [][ThreadsNext]_vars

\* Updates that move entries between buckets, watched step by step, next
\* to adds, over runs of at most MaxMoveOps calls.  One call is under way
\* at a time: whatever else runs only reads.
InitMove == RouterAbsent /\ StoreInit(MaxMoveOps) /\ GeneratorInit

MoveNext ==
    \/ Running = {} /\ UpdBegin
    \/ UpdWrite
    \/ UpdRemove
    \/ UpdBucket
    \/ UpdLink
    \/ Running = {} /\ AddQAPair

SpecMove == InitMove /\ [][MoveNext]_vars

\* A deployment: the collection was built from the knowledge-base file,
\* the pipeline answers queries from it, the manager edits the file, and
\* the setup script may be run again.  Queries and the other operations
\* follow one another.
InitVisible ==
    /\ ManagerInit(MaxVisibleOps)
    /\ GeneratorInit
    /\ RouterLocals
    /\ doc_vector_store = FALSE
    /\ qa_vector_store = (disk.kind = "json")
    /\ qa_index = (IF disk.kind = "json" THEN disk.tree.qa_pairs ELSE <<>>)

VisibleNext ==
    \/ AskIndexed
    \/ Tier1
    \/ Tier2
    \/ Tier3
    \/ Return
    \/ pc = "idle" /\ AddQAPair
    \/ pc = "idle" /\ DeleteQAPair
    \/ pc = "idle" /\ SaveQAData
    \/ pc = "idle" /\ CreateQAVectorDB

SpecVisible == InitVisible /\ [][VisibleNext]_vars

\* The two generators, over runs of at most MaxGenOps calls.
InitGenerator == RouterAbsent /\ StoreInit(MaxGenOps) /\ GeneratorInit /\ disk = Absent

GeneratorNext ==
    \/ GenerateComprehensiveQA
    \/ AddCustomQAPair
    \/ SaveComprehensiveQA
    \/ GenerateStructuredQA

SpecGenerator == InitGenerator /\ [][GeneratorNext]_vars


\* =========================================================================
\* Properties of ask_question
\* =========================================================================
Finished == pc \in {"returned", "raised"}

LLMCalls == SelectSeq(calls, LAMBDA c : c.to = "llm")

Searches(call) == Len(SelectSeq(calls, LAMBDA c : c = call))

\* C1: whenever the curated search of a query returned a best result whose
\* distance is below T_curated, the query returns the curated method and
\* the generation collaborator was not called.
TierPriority ==
    (/\ Finished
     /\ Searches(QACall) = 1
     /\ qa_results # <<>>
     /\ qa_results[1].similarity_score < T_curated)
    => (/\ pc = "returned"
        /\ result.method = "qa_data"
        /\ LLMCalls = <<>>)

BothEmpty ==
    /\ search_qa_data(qa_vector_store, qa_corpus) = <<>>
    /\ search_documents(doc_vector_store, doc_corpus) = <<>>

\* C2: a query for which both searches yield nothing (a store that is
\* missing or that raises included) ends in tier 3 after one ungrounded
\* generation call; it returns the fallback envelope, and if it raises,
\* it is the generation call that raised.
FallbackTotality ==
    (Finished /\ BothEmpty)
    => (/\ visited[Len(visited)] = "tier3"
        /\ LLMCalls = <<BaseCall>>
        /\ pc = "returned" => (result.method = "base_llm" /\ result.answer.from = "llm")
        /\ pc = "raised" => llm_fails)

FallbackTotalityWitness ==
    /\ pc = "returned"
    /\ qa_vector_store /\ doc_vector_store /\ use_hybrid
    /\ qa_corpus = NoRetrieval
    /\ doc_corpus.raises
    /\ calls = <<QACall, DocCall, BaseCall>>
    /\ result.method = "base_llm"

\* C8: a returned envelope has no sources exactly when its method is the
\* fallback one.
SourcesEmptyIffFallback ==
    pc = "returned" => (result.sources_used = <<>> <=> result.method = "base_llm")

SourcesEmptyIffFallbackWitness ==
    /\ pc = "returned"
    /\ result.method = "document_search"
    /\ Len(result.sources_used) = 2

\* C10: a query enters the tiers in the order 1, 2, 3 and none twice,
\* searches each corpus at most once, and calls the generation
\* collaborator never when tier 1 answers and exactly once otherwise:
\* with the grounding prompt over all the passages retrieved, or with the
\* ungrounded prompt.
ExactlyOnePath ==
    /\ Searches(QACall) <= 1
    /\ Searches(DocCall) <= 1
    /\ Len(LLMCalls) <= 1
    /\ visited \in {<<>>, <<"tier1">>, <<"tier1", "tier2">>, <<"tier1", "tier2", "tier3">>}
    /\ Finished =>
         IF pc = "returned" /\ result.method = "qa_data"
         THEN LLMCalls = <<>> /\ visited = <<"tier1">>
         ELSE \/ /\ LLMCalls = <<GroundedCall(doc_results)>>
                 /\ LLMCalls[1].passages = [i \in DOMAIN doc_results |-> doc_results[i].title]
                 /\ doc_results # <<>>
                 /\ visited = <<"tier1", "tier2">>
              \/ /\ LLMCalls = <<BaseCall>>
                 /\ visited = <<"tier1", "tier2", "tier3">>

ExactlyOnePathWitness ==
    /\ pc = "returned"
    /\ result.method = "document_search"
    /\ Len(doc_results) = 2
    /\ calls = <<QACall, DocCall, GroundedCall(doc_results)>>

\* A search of this query whose collaborator raised.
QAFailed == Searches(QACall) = 1 /\ qa_corpus.raises
DocFailed == Searches(DocCall) = 1 /\ doc_corpus.raises

\* C11: a curated or document search whose collaborator raises counts as an
\* empty result: the query goes on to the next tier, and it ends with an
\* envelope unless the generation collaborator fails.
RetrievalFailureIsEmpty ==
    /\ QAFailed =>
          /\ qa_results = <<>>
          /\ pc \notin {"idle", "tier1"}
          /\ Len(visited) >= 2 => visited[2] = "tier2"
          /\ Finished => Len(visited) >= 2
    /\ DocFailed =>
          /\ doc_results = <<>>
          /\ pc \notin {"idle", "tier1", "tier2"}
          /\ Finished => visited = <<"tier1", "tier2", "tier3">>
    /\ (Finished /\ (QAFailed \/ DocFailed) /\ ~llm_fails) => pc = "returned"

RetrievalFailureIsEmptyWitness ==
    /\ pc = "returned"
    /\ QAFailed
    /\ DocFailed
    /\ result.method = "base_llm"

\* C12: when the call of the generation collaborator fails, in tier 2 or
\* in tier 3, the query ends with the error: no envelope is returned and
\* no later tier is tried.
GenerationFailureSurfaces ==
    (LLMCalls # <<>> /\ llm_fails) =>
        /\ pc = "raised"
        /\ Len(LLMCalls) = 1
        /\ LLMCalls[1].kind = "grounded" => visited = <<"tier1", "tier2">>
        /\ LLMCalls[1].kind = "base" => visited = <<"tier1", "tier2", "tier3">>

GenerationFailureSurfacesWitness ==
    /\ pc = "raised"
    /\ llm_fails
    /\ LLMCalls = <<GroundedCall(doc_results)>>
    /\ "tier3" \notin Range(visited)

\* C13: the confidence of a returned envelope is the one of its method:
\* high for qa_data, medium for document_search, low for base_llm.
ConfidenceByMethod ==
    pc = "returned" =>
        /\ result.method \in {"qa_data", "document_search", "base_llm"}
        /\ result.method = "qa_data" <=> result.confidence = "high"
        /\ result.method = "document_search" <=> result.confidence = "medium"
        /\ result.method = "base_llm" <=> result.confidence = "low"

ConfidenceByMethodWitness ==
    /\ pc = "returned"
    /\ result.method = "document_search"
    /\ result.confidence = "medium"


\* =========================================================================
\* Properties of the manager
\* =========================================================================
\* The data an operation works on: what the manager holds, loaded first
\* when it holds nothing.
Held == EnsureLoaded(qa_data, disk).data

Count(S) == Cardinality(S)

\* The dicts of bucket c, an absent bucket being an empty one.
Bucket(d, c) ==
    IF c \in DOMAIN d.categories
    THEN [j \in DOMAIN d.categories[c] |-> Deref(d.qa_pairs, d.categories[c][j])]
    ELSE <<>>

AllCategories(d) == (DOMAIN d.categories) \cup {d.qa_pairs[i].category : i \in DOMAIN d.qa_pairs}

AllQuestions(d) ==
    {d.qa_pairs[i].question : i \in DOMAIN d.qa_pairs}
    \cup UNION {{Bucket(d, c)[j].question : j \in DOMAIN Bucket(d, c)} : c \in DOMAIN d.categories}

\* Entries and bucket elements correspond one to one: bucket c holds each
\* question as often as qa_pairs holds it with category c, and nothing
\* whose category field is not c.
Consistent(d) ==
    \A c \in AllCategories(d) :
        /\ \A j \in DOMAIN Bucket(d, c) : Bucket(d, c)[j].category = c
        /\ \A q \in AllQuestions(d) :
             Count({i \in DOMAIN d.qa_pairs :
                      d.qa_pairs[i].question = q /\ d.qa_pairs[i].category = c})
             = Count({j \in DOMAIN Bucket(d, c) : Bucket(d, c)[j].question = q})

Unique(d) ==
    \A i, j \in DOMAIN d.qa_pairs :
        i # j => Normalize(d.qa_pairs[i].question) # Normalize(d.qa_pairs[j].question)

\* C3: no two entries of qa_pairs have the same normalised question.
Uniqueness == ~qa_data.none => Unique(qa_data)

\* C4: an add whose question, normalised, is that of an entry of the store
\* is refused and leaves qa_pairs, categories and metadata as they were.
DuplicateAddRejected ==
    [][(last'.op = "add" /\ ~Held.none /\ Find(Held.qa_pairs, last'.question) # 0)
       => (last'.outcome # "ok" /\ qa_data' = Held)]_vars

\* C5: under add, update and delete every entry is in exactly one bucket,
\* the one of its category, and a bucket holds only entries of its category.
CategoryConsistency == ~qa_data.none => Consistent(qa_data)

\* C6: a save that fails while it writes over an existing primary file
\* leaves the content of that file as it was before the call.
BackupBeforeOverwrite ==
    [][(disk.kind = "json" /\ last'.op = "save" /\ last'.outcome = "write_failed")
       => disk' = disk]_vars

\* The view rebuilt from the entries holds, per category, the entries of
\* that category in their order.
ViewMatches(d) ==
    \A c \in AllCategories(d) :
        Bucket(d, c) = SelectSeq(d.qa_pairs, LAMBDA e : e.category = c)

\* C7: loading the file a save has just written gives the entries that
\* were saved, in their order, and a categories view that matches them.
RoundTrip ==
    [][(/\ last.op = "save" /\ last.outcome = "ok"
        /\ ~qa_data.none
        /\ last'.op = "load")
       => (/\ last'.outcome = "ok"
           /\ qa_data'.qa_pairs = qa_data.qa_pairs
           /\ ViewMatches(qa_data'))]_vars

\* C9: metadata.total_qa_pairs is the length of qa_pairs.
CountInvariant ==
    ~qa_data.none => qa_data.metadata.total_qa_pairs = Len(qa_data.qa_pairs)

CountInvariantWitness ==
    /\ last.op = "delete" /\ last.outcome = "ok"
    /\ Len(qa_data.qa_pairs) = 1
    /\ qa_data.qa_pairs[1].source = ImportSource
    /\ qa_data.metadata.total_qa_pairs = 1

\* C14: an update that moves the last entry out of a bucket, or a delete
\* that removes it, does not leave the emptied bucket in categories.
NoEmptyBucket ==
    [][(last'.op \in {"update", "delete"} /\ last'.outcome = "ok")
       => \A c \in DOMAIN qa_data'.categories : qa_data'.categories[c] # <<>>]_vars

\* C15: an import into a store without duplicates leaves it without
\* duplicates: an entry of the file whose normalised question is already
\* held, or came earlier in the file, is skipped.
ImportSkipsDuplicates ==
    [][(last'.op = "import" /\ last'.outcome = "ok" /\ ~Held.none /\ Unique(Held))
       => Unique(qa_data')]_vars

\* C16: validate_qa_pairs returns its report whatever the store holds,
\* entries without a question and a store whose file could not be loaded
\* included: it never raises.
ValidateNeverRaises == last.op = "validate" => last.outcome = "ok"

\* The backup step of a save failed: the existing primary file could not
\* be parsed, or the write of the backup file broke off.
BackupStepFailed ==
    /\ budget' # budget
    /\ last'.op = "save"
    /\ \/ disk.kind = "partial"
       \/ /\ disk.kind = "json"
          /\ clock \in DOMAIN backups'
          /\ backups'[clock] = Partial

\* C17: a save whose backup step fails ends in an error and leaves the
\* primary file as it was: the file is not opened for writing.
BackupFailureAborts ==
    [][BackupStepFailed => (last'.outcome = "backup_failed" /\ disk' = disk)]_vars

BackupFailureAbortsWitness ==
    /\ last.op = "save"
    /\ last.outcome = "backup_failed"
    /\ disk.kind = "json"
    /\ clock \in DOMAIN backups
    /\ backups[clock] = Partial
    /\ ~qa_data.none
    /\ Dump(qa_data) # disk.tree

\* C18: after a load, whatever the file held, every entry is in exactly the
\* bucket of its category and every bucket holds the entries of its
\* category: the view was rebuilt from qa_pairs.
LoadHeals ==
    (last.op = "load" /\ last.outcome = "ok") =>
        (Consistent(qa_data) /\ ViewMatches(qa_data))

\* C19: an update, a delete or an import that ends in an error leaves the
\* entries, the categories view and the metadata as they were before it.
AllOrNothing ==
    [][(/\ budget' # budget
        /\ last'.op \in {"update", "delete", "import"}
        /\ last'.outcome # "ok")
       => qa_data' = Held]_vars

\* What the count and the view say of a store or of a saved document.
Whole(d) ==
    /\ d.metadata.total_qa_pairs = Len(d.qa_pairs)
    /\ Consistent(d)

\* C20: with threads that add and save at the same time, the calls take
\* effect one at a time: no save writes a store that an add has updated
\* in part, and whenever no add is under way the count and the view agree
\* with the entries.
SingleWriter ==
    /\ (disk.kind = "json" /\ ~disk.tree.null) => Whole(Parse(disk.tree))
    /\ (Running = {} /\ ~qa_data.none) => Whole(qa_data)

\* The last completed operation is a successful save of a loaded store.
Persisted == last.op = "save" /\ last.outcome = "ok" /\ ~qa_data.none

\* C21: once a mutation has been saved, queries are answered from the
\* saved entries: every entry of the store is in the collection the curated
\* tier searches, and an entry the curated tier returns is in the store.
MutationVisibility ==
    Persisted =>
        /\ \A e \in Range(qa_data.qa_pairs) : e \in Range(qa_index)
        /\ (pc = "returned" /\ result.method = "qa_data") =>
              qa_index[result.answer.entry] \in Range(qa_data.qa_pairs)

\* The curated search of the finished query was made and gave this.
CuratedSearched == Finished /\ Searches(QACall) = 1

\* C22: the curated method is returned only for a non-empty curated result
\* whose best distance is strictly below T_curated; with an empty result,
\* or a best distance equal to T_curated or above it, tier 1 does not
\* accept and the query goes on to tier 2.
StrictAcceptance ==
    /\ (pc = "returned" /\ result.method = "qa_data") =>
          /\ qa_results # <<>>
          /\ qa_results[1].similarity_score < T_curated
    /\ (CuratedSearched
          /\ (qa_results = <<>> \/ qa_results[1].similarity_score >= T_curated)) =>
          /\ ~(pc = "returned" /\ result.method = "qa_data")
          /\ Len(visited) >= 2
          /\ visited[2] = "tier2"

\* The order of the confidence labels.
Rank(confidence) ==
    IF confidence = "high" THEN 3 ELSE IF confidence = "medium" THEN 2 ELSE 1

\* Of two entries, the one with the higher stored confidence, and with
\* equal confidences the one with the smaller doc_id.
Preferred(a, b) ==
    IF Rank(StoredConfidence(a)) > Rank(StoredConfidence(b)) THEN a
    ELSE IF Rank(StoredConfidence(b)) > Rank(StoredConfidence(a)) THEN b
    ELSE IF DocId(a) <= DocId(b) THEN a ELSE b

\* C23: when the curated tier accepts and its two results have the same
\* score, the entry it answers with is the preferred one of the two, in
\* whichever order the collaborator returned them.
CuratedTieBreak ==
    (/\ pc = "returned"
     /\ result.method = "qa_data"
     /\ Len(qa_results) = 2
     /\ qa_results[1].similarity_score = qa_results[2].similarity_score)
    => result.answer.entry = Preferred(qa_results[1].answer, qa_results[2].answer)

\* The document corpus is available and has passages for the query.
DocumentsAvailable == search_documents(doc_vector_store, doc_corpus) # <<>>

FallbackReturned == pc = "returned" /\ result.method = "base_llm"

\* C24, as claimed: an envelope of the fallback method comes from a query
\* whose curated tier did not accept and whose document corpus was
\* unavailable or empty, whatever the arguments of ask_question.
FallbackOnlyLast ==
    FallbackReturned => (~CuratedAccepts(qa_results) /\ ~DocumentsAvailable)

\* C24, amended: that holds for the queries made with use_hybrid true; a
\* query made with use_hybrid false returns the fallback method after the
\* one ungrounded call, without a search of either corpus.
FallbackOnlyLastHybrid ==
    /\ (FallbackReturned /\ use_hybrid) =>
          /\ ~CuratedAccepts(qa_results)
          /\ ~DocumentsAvailable
          /\ visited = <<"tier1", "tier2", "tier3">>
    /\ (Finished /\ ~use_hybrid) =>
          /\ calls = <<BaseCall>>
          /\ pc = "returned" => result.method = "base_llm"

FallbackOnlyLastHybridWitness ==
    /\ FallbackReturned
    /\ use_hybrid
    /\ doc_vector_store
    /\ calls = <<QACall, DocCall, BaseCall>>
    /\ qa_results # <<>>

\* The buckets in which an observer finds the entry at index i.
Holders(d, i) ==
    {c \in DOMAIN d.categories :
        \E j \in DOMAIN d.categories[c] :
            Deref(d.qa_pairs, d.categories[c][j]).question = d.qa_pairs[i].question}

\* C25: at every moment of an update that changes a category, an entry of
\* a store without duplicates is found in exactly one bucket, the one its
\* category field names.
AtomicMove ==
    (~qa_data.none /\ Unique(qa_data)) =>
        \A i \in DOMAIN qa_data.qa_pairs :
            Holders(qa_data, i) = {qa_data.qa_pairs[i].category}

\* A save that wrote a backup of the existing primary file.
BackedUp ==
    /\ budget' # budget
    /\ last'.op = "save"
    /\ disk.kind = "json"
    /\ last'.outcome # "backup_failed"

\* C26: the backup a save writes has a name no earlier backup has, and the
\* earlier backups keep their content, two saves in one second included.
UniqueBackups ==
    [][BackedUp =>
         /\ clock \notin DOMAIN backups
         /\ \A t \in DOMAIN backups : backups'[t] = backups[t]]_vars

\* C27: after a load and any adds, updates and deletes on a store without
\* duplicates, every element of a bucket, and so of the file export writes
\* for the category, has the field values of the entry of qa_pairs with
\* its question.
ViewNotCopy ==
    (~qa_data.none /\ Unique(qa_data)) =>
        \A c \in DOMAIN qa_data.categories :
            LET out == export_category(qa_data, c).qa_pairs IN
            \A j \in DOMAIN out :
                \A i \in DOMAIN qa_data.qa_pairs :
                    qa_data.qa_pairs[i].question = out[j].question
                        => out[j] = qa_data.qa_pairs[i]

\* C28: metadata lists exactly the categories and exactly the sources of
\* the entries held.
DerivedMetadata ==
    ~qa_data.none =>
        /\ Range(qa_data.metadata.categories)
             = {qa_data.qa_pairs[i].category : i \in DOMAIN qa_data.qa_pairs}
        /\ Range(qa_data.metadata.sources)
             = {qa_data.qa_pairs[i].source : i \in DOMAIN qa_data.qa_pairs}

\* The positions of a list that hold the first occurrence of their
\* normalised question.
FirstOccurrences(pairs) ==
    {i \in DOMAIN pairs :
        \A j \in 1..(i - 1) :
            Normalize(pairs[j].question) # Normalize(pairs[i].question)}

\* out is what is left of pairs when the duplicates are removed.
Deduplicated(pairs, out) ==
    LET F == FirstOccurrences(pairs) IN
    /\ \A i, j \in DOMAIN out :
          i # j => Normalize(out[i].question) # Normalize(out[j].question)
    /\ Len(out) = Cardinality(F)
    /\ \A i \in F : out[Cardinality({j \in F : j <= i})] = pairs[i]
    /\ remove_duplicates(out) = out

\* C29: after the duplicates are removed in a generate call of either
\* generator, the normalised questions of qa_pairs are pairwise distinct,
\* every entry kept is the first of its normalised question in the list as
\* it stood, the entries kept are in the order they had, and removing the
\* duplicates again changes nothing.
BulkDeduplication ==
    /\ last.op = "generate" => Deduplicated(extended, generator.qa_pairs)
    /\ last.op = "generate_structured" => Deduplicated(extended, structured)

BulkDeduplicationWitness ==
    /\ last.op = "generate"
    /\ Len(generator.qa_pairs) >= 2
    /\ Len(generator.qa_pairs) < Len(extended)
    /\ \E i, j \in DOMAIN extended :
          /\ i < j
          /\ extended[i].question # extended[j].question
          /\ Normalize(extended[i].question) = Normalize(extended[j].question)

\* How often x is an element of s.
Occurrences(s, x) == Cardinality({i \in DOMAIN s : s[i] = x})

RECURSIVE SumCounts(_)
SumCounts(f) ==
    IF DOMAIN f = {} THEN 0
    ELSE LET c == CHOOSE x \in DOMAIN f : TRUE IN
         f[c] + SumCounts([x \in DOMAIN f \ {c} |-> f[x]])

\* Every entry of pairs is once in the bucket of its category, and the
\* buckets hold nothing else.
Organized(pairs, cats) ==
    /\ \A i \in DOMAIN pairs :
          /\ pairs[i].category \in DOMAIN cats
          /\ Occurrences(cats[pairs[i].category], pairs[i]) = Occurrences(pairs, pairs[i])
    /\ \A c \in DOMAIN cats :
          \A j \in DOMAIN cats[c] :
              /\ cats[c][j].category = c
              /\ cats[c][j] \in Range(pairs)

\* C30: after any generate_comprehensive_qa and add_custom_qa_pair calls,
\* every entry of qa_pairs is exactly once in the buckets, in the bucket of
\* its category, and the file save_comprehensive_qa writes has
\* category_counts that sum to total_qa_pairs and a categories view that
\* holds exactly the entries of qa_pairs.
OutputConsistency ==
    /\ Organized(generator.qa_pairs, generator.categories)
    /\ written.kind = "json" =>
          /\ SumCounts(written.metadata.category_counts)
               = written.metadata.total_qa_pairs
          /\ Organized(written.qa_pairs, written.categories)

====
